---- MODULE Spec2Model ----
(***************************************************************************)
(* Model of src/src/module.rs (crate llvm-ir): Module::from_bc_path and    *)
(* the two-pass decoder Module::from_llvm_ref with its entity decoders     *)
(* GlobalVariable::from_llvm_ref, GlobalAlias::from_llvm_ref and           *)
(* NamedMetadata::from_llvm_ref.                                           *)
(*                                                                         *)
(* The foreign module graph is a record `src`: an enumeration of global    *)
(* objects (node identity = position in the enumeration, standing for the  *)
(* LLVMValueRef), the named struct declarations and the named-metadata     *)
(* entries.  The mechanical enum translations other than Linkage are left  *)
(* out of the decoded entities.                                            *)
(***************************************************************************)
EXTENDS Integers, Sequences, FiniteSets, TLC

\* ------------------------------------------------------------------------
\* Bounds of the explored source graphs
\* ------------------------------------------------------------------------
MaxDefined == 1
MaxDeclared == 1
MaxGlobals == 2
MaxAliases == 1
MaxNamedMD == 2
MaxOperands == 2
TypeFuel == 3

\* ------------------------------------------------------------------------
\* Values
\* ------------------------------------------------------------------------
None == [some |-> FALSE]
Some(x) == [some |-> TRUE, v |-> x]

\* crate::name::Name : Name(String) | Number(usize)
NameName(s) == [kind |-> "Name", s |-> s, n |-> 0]
NameNumber(n) == [kind |-> "Number", s |-> "", n |-> n]

\* Foreign (LLVM-side) types
TInt == [k |-> "int"]
Ptr(t, a) == [k |-> "ptr", to |-> t, as |-> a]
Named(n) == [k |-> "named", name |-> n]
Opaque == [opaque |-> TRUE, fields |-> <<>>]
Body(fs) == [opaque |-> FALSE, fields |-> fs]
TypeNames == {"S", "T"}

\* Decoded (owned) types
IntegerType == [k |-> "IntegerType"]
PointerType(p, a) == [k |-> "PointerType", pointee |-> p, addr_space |-> a]
NamedStructType(n, id) == [k |-> "NamedStructType", name |-> n, slot |-> id]
StructType(es) == [k |-> "StructType", element_types |-> es]

\* Foreign constants
NullInit == [k |-> "null"]
CInt(v) == [k |-> "int", v |-> v]
CRef(i) == [k |-> "ref", to |-> i]
CStruct(n, ops) == [k |-> "struct", ty |-> n, ops |-> ops]

\* Metadata nodes of the foreign graph (identities)
MDNodes == {"md1", "md2"}

\* ------------------------------------------------------------------------
\* Source graphs
\* ------------------------------------------------------------------------
NodeNames == <<"n1", "n2", "n3", "n4", "n5", "n6", "n7", "n8", "n9", "n10", "n11", "n12">>
MDNames == <<"llvm.ident", "llvm.module.flags", "llvm.dbg.cu", "llvm.commandline">>

Total(s) == s.def + s.decl + s.gvar + s.alias

KindAt(s, i) ==
    IF i <= s.def THEN "def"
    ELSE IF i <= s.def + s.decl THEN "decl"
    ELSE IF i <= s.def + s.decl + s.gvar THEN "gvar"
    ELSE "alias"

Shapes ==
    { s \in [def : 0..MaxDefined, decl : 0..MaxDeclared, gvar : 0..MaxGlobals, alias : 0..MaxAliases] :
        s.alias > 0 => Total(s) > s.alias }

LinkageAt(kind) ==
    IF kind = "gvar" THEN "LLVMInternalLinkage"
    ELSE IF kind = "alias" THEN "LLVMWeakAnyLinkage"
    ELSE "LLVMExternalLinkage"

DefaultStructs == [n \in TypeNames |-> Body(<<TInt>>)]

MkNode(kind, named, i, ty, init) ==
    [kind |-> kind, name |-> IF named THEN NodeNames[i] ELSE "", ty |-> ty, init |-> init,
     linkage |-> LinkageAt(kind)]

MkSrc(nodes, structs, nmd) ==
    [ident |-> "module.bc", nodes |-> nodes, structs |-> structs, nmd |-> nmd]

\* the node after i in the cycle over the globals and aliases of shape s
NextGlobal(s, i) ==
    LET lo == s.def + s.decl + 1
    IN  IF i = Total(s) THEN lo ELSE i + 1

\* Family 1: every mix of named and unnamed objects; the initializers form a
\* reference cycle through the globals and aliases (odd positions wrap the
\* reference in a struct constant), the aliasee of an alias is the next
\* object of the cycle, or the first object when the alias is alone in it.
NamingInit(s, i) ==
    LET j == NextGlobal(s, i)
    IN  IF KindAt(s, i) = "gvar"
        THEN IF i % 2 = 1 THEN CStruct("S", <<CInt(7), CRef(j)>>) ELSE CRef(j)
        ELSE IF KindAt(s, i) = "alias" THEN (IF j = i THEN CRef(1) ELSE CRef(j))
        ELSE NullInit

NamingSources ==
    UNION { { MkSrc([i \in 1..Total(s) |->
                        MkNode(KindAt(s, i), f[i], i, Ptr(TInt, 0), NamingInit(s, i))],
                    DefaultStructs, <<>>)
              : f \in [1..Total(s) -> BOOLEAN] }
            : s \in Shapes }

\* Family 2: the largest shape, all named or all unnamed; every global
\* variable references an arbitrary object (or has no initializer).
RefShape == [def |-> MaxDefined, decl |-> MaxDeclared, gvar |-> MaxGlobals, alias |-> MaxAliases]

RefInit(s, i, tgt, nested) ==
    IF KindAt(s, i) = "gvar"
    THEN IF tgt[i] = 0 THEN NullInit
         ELSE IF nested THEN CStruct("T", <<CRef(tgt[i]), CRef(i)>>) ELSE CRef(tgt[i])
    ELSE IF KindAt(s, i) = "alias" THEN CRef(1)
    ELSE NullInit

RefSources ==
    LET s == RefShape
        gv == { i \in 1..Total(s) : KindAt(s, i) = "gvar" }
    IN  { MkSrc([i \in 1..Total(s) |->
                    MkNode(KindAt(s, i), named, i, Ptr(TInt, 0), RefInit(s, i, tgt, nested))],
                DefaultStructs, <<>>)
          : named \in BOOLEAN, nested \in BOOLEAN, tgt \in [gv -> 0..Total(s)] }

\* Family 3: one function, one global variable and one alias (three sites
\* that reach the type table), every choice of their types and of the
\* declarations of the named struct types.
StructBodies ==
    { Opaque, Body(<<TInt>>), Body(<<Ptr(Named("S"), 0)>>), Body(<<Ptr(Named("T"), 0)>>),
      Body(<<Ptr(Named("S"), 0), Ptr(Named("T"), 0)>>) }

GlobalTypes == { TInt, Ptr(TInt, 0), Ptr(Named("S"), 0), Ptr(Named("T"), 1) }
FunctionTypes == { Ptr(TInt, 0), Ptr(Named("S"), 0) }

TypeSources ==
    { MkSrc(<< MkNode("def", TRUE, 1, ft, NullInit),
               MkNode("gvar", TRUE, 2, gt, init),
               MkNode("alias", TRUE, 3, at, CRef(2)) >>,
            st, <<>>)
      : ft \in FunctionTypes, gt \in GlobalTypes, at \in GlobalTypes,
        init \in { NullInit, CStruct("S", <<CInt(0)>>) },
        st \in [TypeNames -> StructBodies] }

\* Family 4: one named global variable and every list of named-metadata
\* entries over the metadata nodes.
RECURSIVE SeqsUpTo(_, _)
SeqsUpTo(S, n) ==
    IF n = 0 THEN { <<>> }
    ELSE LET shorter == SeqsUpTo(S, n - 1)
         IN  shorter \cup { Append(q, x) : q \in { r \in shorter : Len(r) = n - 1 }, x \in S }

MetadataSources ==
    { MkSrc(<< MkNode("gvar", TRUE, 1, Ptr(TInt, 0), CInt(1)) >>, DefaultStructs,
            [i \in 1..Len(ops) |-> [name |-> MDNames[i], ops |-> ops[i]]])
      : ops \in SeqsUpTo(SeqsUpTo(MDNodes, MaxOperands), MaxNamedMD) }

Sources == NamingSources \cup RefSources \cup TypeSources \cup MetadataSources

NoModule == [ident |-> "", nodes |-> <<>>, structs |-> DefaultStructs, nmd |-> <<>>]

\* ------------------------------------------------------------------------
\* Name Allocator (crate::name), Type Memoizer (crate::types) and constant
\* decoder (crate::constant), as module.rs uses them
\* ------------------------------------------------------------------------

\* Name::name_or_num(s, &mut ctr)
NameOrNum(s, ctr) ==
    IF s # "" THEN [name |-> NameName(s), ctr |-> ctr]
    ELSE [name |-> NameNumber(ctr), ctr |-> ctr + 1]

\* TyNameMap::new(), with the bookkeeping the properties read: `next` is the
\* identity of the next slot allocated, `log` the (name, slot) pairs handed
\* out, `resolved` / `created` / `populated` count the resolves of a name,
\* the creations of its slot and the populations of that slot.
NewMemo ==
    [next |-> 1, log |-> {}, resolved |-> [n \in TypeNames |-> 0],
     created |-> [n \in TypeNames |-> 0], populated |-> [n \in TypeNames |-> 0],
     diverged |-> FALSE]

EmptyMap == [n \in {} |-> None]

MemoState(tn, gh) ==
    [tn |-> tn, next |-> gh.next, log |-> gh.log, resolved |-> gh.resolved,
     created |-> gh.created, populated |-> gh.populated, diverged |-> gh.diverged]

GhostOf(st) ==
    [next |-> st.next, log |-> st.log, resolved |-> st.resolved, created |-> st.created,
     populated |-> st.populated, diverged |-> st.diverged]

RECURSIVE TypeFromLLVM(_, _, _, _)
RECURSIVE ElementsFromLLVM(_, _, _, _, _)

\* a named struct resolved without registering the placeholder first
NamedTypeNoPlaceholder(m, n, s0, fuel) ==
    LET st == [s0 EXCEPT !.resolved[n] = @ + 1] IN
    IF n \in DOMAIN st.tn
    THEN [ty |-> NamedStructType(n, st.tn[n].id),
          st |-> [st EXCEPT !.log = @ \cup { <<n, st.tn[n].id>> }]]
    ELSE IF fuel = 0
    THEN [ty |-> NamedStructType(n, 0), st |-> [st EXCEPT !.diverged = TRUE]]
    ELSE LET id == st.next
             st1 == [st EXCEPT !.next = @ + 1, !.created[n] = @ + 1,
                               !.log = @ \cup { <<n, id>> }]
         IN  IF m.structs[n].opaque
             THEN [ty |-> NamedStructType(n, id),
                   st |-> [st1 EXCEPT !.tn = (n :> [id |-> id, val |-> None]) @@ @]]
             ELSE LET r == ElementsFromLLVM(m, m.structs[n].fields, 1, st1, fuel - 1)
                  IN  [ty |-> NamedStructType(n, id),
                       st |-> [r.st EXCEPT
                                 !.tn = (n :> [id |-> id, val |-> Some(StructType(r.tys))]) @@ @,
                                 !.populated[n] = @ + 1]]

\* resolve(name): an existing slot is returned at once; otherwise an empty
\* slot is registered, the body is constructed, and the slot is populated
\* (an opaque declaration leaves it empty).
NamedTypeFromLLVM(m, n, s0, fuel) ==
    LET st == [s0 EXCEPT !.resolved[n] = @ + 1] IN
    IF n \in DOMAIN st.tn
    THEN [ty |-> NamedStructType(n, st.tn[n].id),
          st |-> [st EXCEPT !.log = @ \cup { <<n, st.tn[n].id>> }]]
    ELSE IF fuel = 0
    THEN [ty |-> NamedStructType(n, 0), st |-> [st EXCEPT !.diverged = TRUE]]
    ELSE LET id == st.next
             st1 == [st EXCEPT !.tn = (n :> [id |-> id, val |-> None]) @@ @,
                               !.next = @ + 1, !.created[n] = @ + 1,
                               !.log = @ \cup { <<n, id>> }]
         IN  IF m.structs[n].opaque
             THEN [ty |-> NamedStructType(n, id), st |-> st1]
             ELSE LET r == ElementsFromLLVM(m, m.structs[n].fields, 1, st1, fuel - 1)
                  IN  [ty |-> NamedStructType(n, id),
                       st |-> [r.st EXCEPT
                                 !.tn = (n :> [id |-> id, val |-> Some(StructType(r.tys))]) @@ @,
                                 !.populated[n] = @ + 1]]

\* Type::from_llvm_ref(ty, tnmap)
TypeFromLLVM(m, t, st, fuel) ==
    IF t.k = "int" THEN [ty |-> IntegerType, st |-> st]
    ELSE IF t.k = "ptr"
    THEN LET r == TypeFromLLVM(m, t.to, st, fuel)
         IN  [ty |-> PointerType(r.ty, t.as), st |-> r.st]
    ELSE NamedTypeFromLLVM(m, t.name, st, fuel)

\* the element types of a struct body, left to right, sharing the table
ElementsFromLLVM(m, fs, i, st, fuel) ==
    IF i > Len(fs) THEN [tys |-> <<>>, st |-> st]
    ELSE LET r == TypeFromLLVM(m, fs[i], st, fuel)
             rest == ElementsFromLLVM(m, fs, i + 1, r.st, fuel)
         IN  [tys |-> <<r.ty>> \o rest.tys, st |-> rest.st]

RECURSIVE ConstantFromLLVM(_, _, _, _)
RECURSIVE OperandsFromLLVM(_, _, _, _, _)

\* Constant::from_llvm_ref(c, gnmap, tnmap): a leaf that names a global
\* object is resolved through gnmap
ConstantFromLLVM(m, c, gn, st) ==
    IF c.k = "int" THEN [c |-> [k |-> "Int", value |-> c.v], st |-> st]
    ELSE IF c.k = "ref" THEN [c |-> [k |-> "GlobalReference", name |-> gn[c.to]], st |-> st]
    ELSE LET t == TypeFromLLVM(m, Named(c.ty), st, TypeFuel)
             r == OperandsFromLLVM(m, c.ops, 1, gn, t.st)
         IN  [c |-> [k |-> "Struct", name |-> c.ty, values |-> r.cs], st |-> r.st]

OperandsFromLLVM(m, ops, i, gn, st) ==
    IF i > Len(ops) THEN [cs |-> <<>>, st |-> st]
    ELSE LET r == ConstantFromLLVM(m, ops[i], gn, st)
             rest == OperandsFromLLVM(m, ops, i + 1, gn, r.st)
         IN  [cs |-> <<r.c>> \o rest.cs, st |-> rest.st]

\* ------------------------------------------------------------------------
\* Enumerations of the foreign module (crate::from_llvm iterators)
\* ------------------------------------------------------------------------
RECURSIVE NodesOfKind(_, _, _)
NodesOfKind(m, kind, i) ==
    IF i > Len(m.nodes) THEN <<>>
    ELSE (IF m.nodes[i].kind = kind THEN <<i>> ELSE <<>>) \o NodesOfKind(m, kind, i + 1)

get_defined_functions(m) == NodesOfKind(m, "def", 1)
get_declared_functions(m) == NodesOfKind(m, "decl", 1)
get_globals(m) == NodesOfKind(m, "gvar", 1)
get_global_aliases(m) == NodesOfKind(m, "alias", 1)

\* ------------------------------------------------------------------------
\* Pass 1 of Module::from_llvm_ref: the GlobalNameMap
\* ------------------------------------------------------------------------
RECURSIVE NameAll(_, _, _, _, _)
NameAll(m, order, i, ctr, gn) ==
    IF i > Len(order) THEN [gnmap |-> gn, ctr |-> ctr]
    ELSE LET r == NameOrNum(m.nodes[order[i]].name, ctr)
         IN  NameAll(m, order, i + 1, r.ctr, (order[i] :> r.name) @@ gn)

BuildGnmap(m, ctr) ==
    NameAll(m,
            get_defined_functions(m) \o get_declared_functions(m)
                \o get_globals(m) \o get_global_aliases(m),
            1, ctr, [i \in {} |-> NameNumber(0)])

\* ------------------------------------------------------------------------
\* Entity decoders
\* ------------------------------------------------------------------------
LinkageFromLLVM(l) ==
    IF l = "LLVMInternalLinkage" THEN "Internal"
    ELSE IF l = "LLVMWeakAnyLinkage" THEN "WeakAny"
    ELSE "External"

\* a non-pointer type taken to live in address space 0 instead of panicking
AddrSpaceOrZero(ty) ==
    IF ty.k = "PointerType" THEN [panic |-> FALSE, addr_space |-> ty.addr_space]
    ELSE [panic |-> FALSE, addr_space |-> 0]

\* match ty { Type::PointerType { addr_space, .. } => addr_space, _ => panic!(..) }
AddrSpaceOf(ty) ==
    IF ty.k = "PointerType" THEN [panic |-> FALSE, addr_space |-> ty.addr_space]
    ELSE [panic |-> TRUE, addr_space |-> 0]

\* the initializer dropped
InitializerDropped(m, it, gn, st) == [c |-> None, st |-> st]

\* initializer: if it.is_null() { None } else { Some(Constant::from_llvm_ref(..)) }
InitializerOf(m, it, gn, st) ==
    IF it = NullInit THEN [c |-> None, st |-> st]
    ELSE LET r == ConstantFromLLVM(m, it, gn, st)
         IN  [c |-> Some(r.c), st |-> r.st]

\* Function::from_llvm_ref(f, &gnmap, &mut tynamemap): functions are named
\* with the raw string; no counter is passed
FunctionFromLLVM(m, f, gn, st) ==
    LET t == TypeFromLLVM(m, m.nodes[f].ty, st, TypeFuel)
    IN  [panic |-> IF t.st.diverged THEN "stack overflow" ELSE "",
         v |-> [name |-> m.nodes[f].name, ty |-> t.ty,
                linkage |-> LinkageFromLLVM(m.nodes[f].linkage)],
         st |-> t.st]

\* GlobalVariable::from_llvm_ref(global, ctr, gnmap, tnmap)
GlobalVariableFromLLVM(m, g, ctr, gn, st) ==
    LET t == TypeFromLLVM(m, m.nodes[g].ty, st, TypeFuel)
        nm == NameOrNum(m.nodes[g].name, ctr)
        as == AddrSpaceOf(t.ty)
        it == InitializerOf(m, m.nodes[g].init, gn, t.st)
    IN  IF t.st.diverged
        THEN [panic |-> "stack overflow", v |-> None, ctr |-> nm.ctr, st |-> t.st]
        ELSE IF as.panic
        THEN [panic |-> "GlobalVariable has a non-pointer type", v |-> None,
              ctr |-> nm.ctr, st |-> t.st]
        ELSE [panic |-> IF it.st.diverged THEN "stack overflow" ELSE "",
              v |-> [name |-> nm.name, linkage |-> LinkageFromLLVM(m.nodes[g].linkage),
                     ty |-> t.ty, addr_space |-> as.addr_space, initializer |-> it.c],
              ctr |-> nm.ctr, st |-> it.st]

\* GlobalAlias::from_llvm_ref(alias, ctr, gnmap, tnmap)
GlobalAliasFromLLVM(m, a, ctr, gn, st) ==
    LET t == TypeFromLLVM(m, m.nodes[a].ty, st, TypeFuel)
        nm == NameOrNum(m.nodes[a].name, ctr)
        al == ConstantFromLLVM(m, m.nodes[a].init, gn, t.st)
        as == AddrSpaceOf(t.ty)
    IN  IF t.st.diverged \/ al.st.diverged
        THEN [panic |-> "stack overflow", v |-> None, ctr |-> nm.ctr, st |-> al.st]
        ELSE IF as.panic
        THEN [panic |-> "GlobalAlias has a non-pointer type", v |-> None,
              ctr |-> nm.ctr, st |-> al.st]
        ELSE [panic |-> "",
              v |-> [name |-> nm.name, aliasee |-> al.c,
                     linkage |-> LinkageFromLLVM(m.nodes[a].linkage),
                     ty |-> t.ty, addr_space |-> as.addr_space],
              ctr |-> nm.ctr, st |-> al.st]

RECURSIVE LookupAll(_, _, _)
LookupAll(ops, i, ll) ==
    IF i > Len(ops) THEN [panic |-> FALSE, ids |-> <<>>]
    ELSE LET rest == LookupAll(ops, i + 1, ll)
         IN  IF ops[i] \notin DOMAIN ll THEN [panic |-> TRUE, ids |-> <<>>]
             ELSE [panic |-> rest.panic, ids |-> IF rest.panic THEN <<>> ELSE <<ll[ops[i]]>> \o rest.ids]

\* a node missing from the map given the ID 0 instead of panicking
NamedMetadataOrDefault(m, nm, ll) ==
    [panic |-> "",
     v |-> [name |-> m.nmd[nm].name,
            node_ids |-> [i \in 1..Len(m.nmd[nm].ops) |->
                            IF m.nmd[nm].ops[i] \in DOMAIN ll THEN ll[m.nmd[nm].ops[i]] ELSE 0]]]

\* NamedMetadata::from_llvm_ref(nm, module, &llmap)
NamedMetadataFromLLVM(m, nm, ll) ==
    LET r == LookupAll(m.nmd[nm].ops, 1, ll)
    IN  IF r.panic
        THEN [panic |-> "Failed to find metadata node in map", v |-> None]
        ELSE [panic |-> "", v |-> [name |-> m.nmd[nm].name, node_ids |-> r.ids]]

\* ------------------------------------------------------------------------
\* Module::from_bc_path, up to the memory buffer
\* ------------------------------------------------------------------------
PathClasses == { "ok", "not_found", "unreadable", "non_unicode", "interior_nul" }

ErrString(path) ==
    IF path = "not_found" THEN "No such file or directory" ELSE "Permission denied"

\* the return code of LLVMCreateMemoryBufferWithContentsOfFile not looked at
LoadIgnoringReturnCode(path, utf8) ==
    IF path = "non_unicode"
    THEN [kind |-> "Panic", msg |-> "Did not find a valid Unicode path string"]
    ELSE IF path = "interior_nul"
    THEN [kind |-> "Panic", msg |-> "Failed to convert to CString"]
    ELSE [kind |-> "Continue", msg |-> ""]

\* path -> CString (two expects), then the memory buffer: a non-zero return
\* code returns Err(err_string), whose conversion to &str is an expect too
LoadOutcome(path, utf8) ==
    IF path = "non_unicode"
    THEN [kind |-> "Panic", msg |-> "Did not find a valid Unicode path string"]
    ELSE IF path = "interior_nul"
    THEN [kind |-> "Panic", msg |-> "Failed to convert to CString"]
    ELSE IF path # "ok"
    THEN (IF utf8 THEN [kind |-> "Err", msg |-> ErrString(path)]
          ELSE [kind |-> "Panic", msg |-> "Failed to convert CStr"])
    ELSE [kind |-> "Continue", msg |-> ""]

\* a counter that lives across calls
StaticCounter(carried) == carried

\* let mut global_ctr = 0
CounterAtEntry(carried) == 0

\* the counter left where pass 1 ended
CounterNotReset(ctr) == ctr

\* global_ctr = 0, between the passes
CounterAfterPass1(ctr) == 0

\* every entity decoder handed a table of its own
FreshTable(tn) == EmptyMap

\* &mut tynamemap: the one table of the decode, handed to every entity decoder
SharedTable(tn) == tn

\* ------------------------------------------------------------------------
\* State
\* ------------------------------------------------------------------------
VARIABLES
    path,            \* the class of the path given to from_bc_path
    pc,              \* position: from_bc_path, parse, from_llvm_ref, pass2, done
    run,             \* which decode of the source graph this is
    src,             \* the foreign module the deserializer produced
    global_ctr, gnmap, tynamemap, llmap, mnmap,   \* locals of from_llvm_ref
    functions, global_vars, global_aliases, named_metadatas,  \* fields built so far
    memo,            \* bookkeeping of the type table (slot identities, counts)
    outcome,         \* what the call produced: Ok(module), Err(msg) or a panic
    first,           \* the outcome of the first decode
    parse_called,    \* the deserializer was invoked
    decode_calls,    \* number of invocations of from_llvm_ref
    decoded          \* per node: how many times its pass-2 decoder ran

vars == << path, pc, run, src, global_ctr, gnmap, tynamemap, llmap, mnmap, functions,
           global_vars, global_aliases, named_metadatas, memo, outcome, first,
           parse_called, decode_calls, decoded >>

locals == << global_ctr, gnmap, tynamemap, llmap, mnmap, functions, global_vars,
             global_aliases, named_metadatas, memo, decoded >>

NoOutcome == [kind |-> "none", msg |-> "", module |-> None]
Panic(msg) == [kind |-> "Panic", msg |-> msg, module |-> None]
Err(msg) == [kind |-> "Err", msg |-> msg, module |-> None]
Ok(mod) == [kind |-> "Ok", msg |-> "", module |-> Some(mod)]

Init ==
    /\ path \in PathClasses
    /\ pc = "from_bc_path"
    /\ run = 1
    /\ src = NoModule
    /\ global_ctr = 0
    /\ gnmap = <<>>
    /\ tynamemap = EmptyMap
    /\ llmap = <<>>
    /\ mnmap = <<>>
    /\ functions = <<>>
    /\ global_vars = <<>>
    /\ global_aliases = <<>>
    /\ named_metadatas = <<>>
    /\ memo = NewMemo
    /\ outcome = NoOutcome
    /\ first = NoOutcome
    /\ parse_called = FALSE
    /\ decode_calls = 0
    /\ decoded = <<>>

\* from_bc_path, lines 57-86
LoadMemoryBuffer ==
    /\ pc = "from_bc_path"
    /\ \E utf8 \in BOOLEAN :
         LET o == LoadOutcome(path, utf8)
         IN  IF o.kind = "Continue"
             THEN /\ pc' = "parse"
                  /\ UNCHANGED outcome
             ELSE /\ pc' = "done"
                  /\ outcome' = [kind |-> o.kind, msg |-> o.msg, module |-> None]
    /\ UNCHANGED << path, run, src, locals, first, parse_called, decode_calls >>

\* the return code of LLVMParseBitcodeInContext2 not looked at: the decoder
\* is entered also when the bytes were rejected
ParseIgnoringReturnCode ==
    /\ pc = "parse"
    /\ parse_called' = TRUE
    /\ \/ UNCHANGED src
       \/ \E m \in Sources : src' = m
    /\ pc' = "from_llvm_ref"
    /\ UNCHANGED << path, run, locals, outcome, first, decode_calls >>

\* from_bc_path, lines 88-100: LLVMParseBitcodeInContext2
ParseBitcode ==
    /\ pc = "parse"
    /\ parse_called' = TRUE
    /\ \/ /\ pc' = "done"
          /\ outcome' = Err("Failed to parse bitcode")
          /\ UNCHANGED src
       \/ /\ \E m \in Sources : src' = m
          /\ pc' = "from_llvm_ref"
          /\ UNCHANGED outcome
    /\ UNCHANGED << path, run, locals, first, decode_calls >>

\* from_llvm_ref, lines 291-317: pass 1 and the fresh tables
Pass1 ==
    /\ pc = "from_llvm_ref"
    /\ decode_calls' = decode_calls + 1
    /\ gnmap' = BuildGnmap(src, CounterAtEntry(global_ctr)).gnmap
    /\ global_ctr' = CounterAfterPass1(BuildGnmap(src, CounterAtEntry(global_ctr)).ctr)
    /\ tynamemap' = EmptyMap
    /\ llmap' = <<>>
    /\ mnmap' = <<>>
    /\ memo' = NewMemo
    /\ functions' = <<>>
    /\ global_vars' = <<>>
    /\ global_aliases' = <<>>
    /\ named_metadatas' = <<>>
    /\ decoded' = [i \in 1..Len(src.nodes) |-> 0]
    /\ pc' = "pass2"
    /\ UNCHANGED << path, run, src, outcome, first, parse_called >>

Abort(msg) ==
    /\ pc' = "done"
    /\ outcome' = Panic(msg)

\* line 324-326
DecodeFunction ==
    /\ pc = "pass2"
    /\ Len(functions) < Len(get_defined_functions(src))
    /\ LET f == get_defined_functions(src)[Len(functions) + 1]
           r == FunctionFromLLVM(src, f, gnmap, MemoState(SharedTable(tynamemap), memo))
       IN  /\ decoded' = [decoded EXCEPT ![f] = @ + 1]
           /\ tynamemap' = r.st.tn
           /\ memo' = GhostOf(r.st)
           /\ IF r.panic # ""
              THEN Abort(r.panic) /\ UNCHANGED functions
              ELSE functions' = Append(functions, r.v) /\ UNCHANGED << pc, outcome >>
    /\ UNCHANGED << path, run, src, global_ctr, gnmap, llmap, mnmap, global_vars,
                    global_aliases, named_metadatas, first, parse_called, decode_calls >>

\* lines 327-329
DecodeGlobalVariable ==
    /\ pc = "pass2"
    /\ Len(functions) = Len(get_defined_functions(src))
    /\ Len(global_vars) < Len(get_globals(src))
    /\ LET g == get_globals(src)[Len(global_vars) + 1]
           r == GlobalVariableFromLLVM(src, g, global_ctr, gnmap,
                                       MemoState(SharedTable(tynamemap), memo))
       IN  /\ decoded' = [decoded EXCEPT ![g] = @ + 1]
           /\ global_ctr' = r.ctr
           /\ tynamemap' = r.st.tn
           /\ memo' = GhostOf(r.st)
           /\ IF r.panic # ""
              THEN Abort(r.panic) /\ UNCHANGED global_vars
              ELSE global_vars' = Append(global_vars, r.v) /\ UNCHANGED << pc, outcome >>
    /\ UNCHANGED << path, run, src, gnmap, llmap, mnmap, functions, global_aliases,
                    named_metadatas, first, parse_called, decode_calls >>

\* lines 330-332
DecodeGlobalAlias ==
    /\ pc = "pass2"
    /\ Len(functions) = Len(get_defined_functions(src))
    /\ Len(global_vars) = Len(get_globals(src))
    /\ Len(global_aliases) < Len(get_global_aliases(src))
    /\ LET a == get_global_aliases(src)[Len(global_aliases) + 1]
           r == GlobalAliasFromLLVM(src, a, global_ctr, gnmap,
                                    MemoState(SharedTable(tynamemap), memo))
       IN  /\ decoded' = [decoded EXCEPT ![a] = @ + 1]
           /\ global_ctr' = r.ctr
           /\ tynamemap' = r.st.tn
           /\ memo' = GhostOf(r.st)
           /\ IF r.panic # ""
              THEN Abort(r.panic) /\ UNCHANGED global_aliases
              ELSE global_aliases' = Append(global_aliases, r.v) /\ UNCHANGED << pc, outcome >>
    /\ UNCHANGED << path, run, src, gnmap, llmap, mnmap, functions, global_vars,
                    named_metadatas, first, parse_called, decode_calls >>

EntitiesDecoded ==
    /\ Len(functions) = Len(get_defined_functions(src))
    /\ Len(global_vars) = Len(get_globals(src))
    /\ Len(global_aliases) = Len(get_global_aliases(src))

\* line 337
DecodeNamedMetadata ==
    /\ pc = "pass2"
    /\ EntitiesDecoded
    /\ Len(named_metadatas) < Len(src.nmd)
    /\ LET r == NamedMetadataFromLLVM(src, Len(named_metadatas) + 1, llmap)
       IN  IF r.panic # ""
           THEN Abort(r.panic) /\ UNCHANGED named_metadatas
           ELSE named_metadatas' = Append(named_metadatas, r.v) /\ UNCHANGED << pc, outcome >>
    /\ UNCHANGED << path, run, src, global_ctr, gnmap, tynamemap, llmap, mnmap, functions,
                    global_vars, global_aliases, memo, first, parse_called, decode_calls,
                    decoded >>

\* the Module of lines 319-339
AssembledModule ==
    [name |-> src.ident,
     functions |-> functions,
     global_vars |-> global_vars,
     global_aliases |-> global_aliases,
     named_struct_types |-> [n \in DOMAIN tynamemap |-> tynamemap[n].val],
     metadata_nodes |-> mnmap,
     named_metadatas |-> named_metadatas]

\* lines 319-339 completed, and line 101: Ok(Self::from_llvm_ref(module))
ReturnModule ==
    /\ pc = "pass2"
    /\ EntitiesDecoded
    /\ Len(named_metadatas) = Len(src.nmd)
    /\ outcome' = Ok(AssembledModule)
    /\ pc' = "done"
    /\ UNCHANGED << path, run, src, locals, first, parse_called, decode_calls >>

\* the decoder run again on the same source graph
Redecode ==
    /\ pc = "done"
    /\ decode_calls > 0
    /\ run = 1
    /\ first' = outcome
    /\ run' = run + 1
    /\ outcome' = NoOutcome
    /\ pc' = "from_llvm_ref"
    /\ UNCHANGED << path, src, locals, parse_called, decode_calls >>

Next ==
    \/ LoadMemoryBuffer
    \/ ParseBitcode
    \/ Pass1
    \/ DecodeFunction
    \/ DecodeGlobalVariable
    \/ DecodeGlobalAlias
    \/ DecodeNamedMetadata
    \/ ReturnModule
    \/ Redecode

Spec == Init /\ [][Next]_vars

\* ------------------------------------------------------------------------
\* Properties
\* ------------------------------------------------------------------------
Done == pc = "done"
Decoded == pc = "done" /\ decode_calls > 0
Returned == pc = "done" /\ outcome.kind = "Ok"

PositionIn(seq, i) == CHOOSE k \in 1..Len(seq) : seq[k] = i

\* C1: the Identifier pass 2 stores in the name field of every decoded global
\* variable and global alias is the Identifier pass 1 recorded for the same
\* source node in gnmap.
C1_PassTwoKeepsPassOneNames ==
    /\ \A k \in 1..Len(global_vars) : global_vars[k].name = gnmap[get_globals(src)[k]]
    /\ \A k \in 1..Len(global_aliases) :
           global_aliases[k].name = gnmap[get_global_aliases(src)[k]]

\* non-empty textual names are unique in the source
UniqueNames(m) ==
    \A i, j \in 1..Len(m.nodes) :
        (i # j /\ m.nodes[i].name # "") => m.nodes[i].name # m.nodes[j].name

\* the Identifiers that denote node i in the decoded Module: the one other
\* entities reference it by (gnmap) and the name field of its decoded entity
Identifiers(i) ==
    { gnmap[i] } \cup
    (IF src.nodes[i].kind = "gvar"
     THEN { global_vars[PositionIn(get_globals(src), i)].name }
     ELSE IF src.nodes[i].kind = "alias"
     THEN { global_aliases[PositionIn(get_global_aliases(src), i)].name }
     ELSE {})

\* C2: in a decoded Module two distinct global objects never share an
\* Identifier (names in the source being unique where non-empty).
C2_IdentifiersDistinct ==
    (Returned /\ UniqueNames(src)) =>
        \A i, j \in 1..Len(src.nodes) :
            i # j => Identifiers(i) \cap Identifiers(j) = {}

\* C3: a named-metadata entry that lists two nodes decodes to two node IDs,
\* each a key of metadata_nodes that yields the node referenced.
C3_TwoNodeEntryRoundTrips ==
    Decoded =>
        \A k \in 1..Len(src.nmd) :
            Len(src.nmd[k].ops) = 2 =>
                /\ outcome.kind = "Ok"
                /\ Len(outcome.module.v.named_metadatas[k].node_ids) = 2
                /\ \A i \in 1..2 :
                       LET id == outcome.module.v.named_metadatas[k].node_ids[i]
                           table == outcome.module.v.metadata_nodes
                       IN  id \in DOMAIN table /\ table[id].node = src.nmd[k].ops[i]

\* the objects whose resolved type is not a pointer type
NonPointer(m, kind) ==
    { i \in 1..Len(m.nodes) : m.nodes[i].kind = kind /\ m.nodes[i].ty.k # "ptr" }

\* C4 as stated: a global variable or alias of non-pointer type makes the call
\* end in a labeled error result (no Module, no abrupt abort).
C4_NonPointerIsErrResult ==
    (Decoded /\ NonPointer(src, "gvar") \cup NonPointer(src, "alias") # {}) =>
        outcome.kind = "Err"

\* C4 amended: a global variable or alias of non-pointer type makes the decode
\* panic with the message of the first such object in decode order; no Module,
\* partial or otherwise, is produced and no Err is returned.
C4_NonPointerPanics ==
    (Decoded /\ NonPointer(src, "gvar") \cup NonPointer(src, "alias") # {}) =>
        /\ outcome.kind = "Panic"
        /\ outcome.module = None
        /\ outcome.msg = IF NonPointer(src, "gvar") # {}
                         THEN "GlobalVariable has a non-pointer type"
                         ELSE "GlobalAlias has a non-pointer type"

C4_Witness ==
    /\ Decoded
    /\ NonPointer(src, "gvar") = {}
    /\ NonPointer(src, "alias") # {}
    /\ outcome = Panic("GlobalAlias has a non-pointer type")
    /\ Len(global_vars) = 1

\* C5 as stated: every I/O failure class returns an Err value before the
\* deserializer or the decoder is invoked.
C5_IoFailureReturnsErr ==
    (Done /\ path # "ok") =>
        outcome.kind = "Err" /\ ~parse_called /\ decode_calls = 0

\* C5 amended: a file that is not found or unreadable returns Err with the
\* loader's message (a panic when that message is not valid UTF-8); a path
\* that is not Unicode or holds a NUL panics; in each case neither the
\* deserializer nor the decoder has been invoked.
C5_IoFailureStopsBeforeParse ==
    path # "ok" =>
        /\ ~parse_called
        /\ decode_calls = 0
        /\ src = NoModule
        /\ pc \in { "from_bc_path", "done" }
        /\ Done =>
             /\ path = "non_unicode" =>
                    outcome = Panic("Did not find a valid Unicode path string")
             /\ path = "interior_nul" => outcome = Panic("Failed to convert to CString")
             /\ path \in { "not_found", "unreadable" } =>
                    outcome \in { Err(ErrString(path)), Panic("Failed to convert CStr") }

C5_Witness ==
    Done /\ path = "unreadable" /\ outcome = Err("Permission denied") /\ ~parse_called

\* the objects a foreign constant references, left to right
RECURSIVE SrcRefs(_)
RECURSIVE SrcRefsOfAll(_, _)
SrcRefs(c) ==
    IF c.k = "ref" THEN << c.to >>
    ELSE IF c.k = "struct" THEN SrcRefsOfAll(c.ops, 1)
    ELSE <<>>
SrcRefsOfAll(ops, i) ==
    IF i > Len(ops) THEN <<>> ELSE SrcRefs(ops[i]) \o SrcRefsOfAll(ops, i + 1)

\* the Identifiers at the reference leaves of a decoded constant, left to right
RECURSIVE NameLeaves(_)
RECURSIVE NameLeavesOfAll(_, _)
NameLeaves(d) ==
    IF d.k = "GlobalReference" THEN << d.name >>
    ELSE IF d.k = "Struct" THEN NameLeavesOfAll(d.values, 1)
    ELSE <<>>
NameLeavesOfAll(vs, i) ==
    IF i > Len(vs) THEN <<>> ELSE NameLeaves(vs[i]) \o NameLeavesOfAll(vs, i + 1)

TableNames(c) == [j \in 1..Len(SrcRefs(c)) |-> gnmap[SrcRefs(c)[j]]]

\* C6: whatever the reference graph among the global objects (cycles
\* included), pass 2 runs each entity decoder at most once per object, and
\* exactly once by the time the Module is returned (so it ends after one step
\* per object), and every reference leaf of a decoded initializer or aliasee
\* is the gnmap Identifier of the object referenced.
C6_ReferencesResolvedByTable ==
    (pc \in { "pass2", "done" } /\ decode_calls > 0) =>
        /\ \A i \in DOMAIN decoded : decoded[i] <= 1
        /\ \A k \in 1..Len(global_vars) :
               LET it == src.nodes[get_globals(src)[k]].init
               IN  /\ global_vars[k].initializer.some = (it # NullInit)
                   /\ it # NullInit =>
                          NameLeaves(global_vars[k].initializer.v) = TableNames(it)
        /\ \A k \in 1..Len(global_aliases) :
               NameLeaves(global_aliases[k].aliasee)
                   = TableNames(src.nodes[get_global_aliases(src)[k]].init)
        /\ Returned =>
               \A i \in DOMAIN decoded :
                   decoded[i] = IF src.nodes[i].kind = "decl" THEN 0 ELSE 1

\* two global variables whose initializers reference each other, decoded
C6_Witness ==
    /\ Returned
    /\ \E a, b \in 1..Len(global_vars) :
           LET ga == get_globals(src)[a]
               gb == get_globals(src)[b]
           IN  /\ a # b
               /\ \E j \in 1..Len(SrcRefs(src.nodes[ga].init)) :
                      SrcRefs(src.nodes[ga].init)[j] = gb
               /\ \E j \in 1..Len(SrcRefs(src.nodes[gb].init)) :
                      SrcRefs(src.nodes[gb].init)[j] = ga
               /\ \E j \in 1..Len(NameLeaves(global_vars[a].initializer.v)) :
                      NameLeaves(global_vars[a].initializer.v)[j] = gnmap[gb]
               /\ \E j \in 1..Len(NameLeaves(global_vars[b].initializer.v)) :
                      NameLeaves(global_vars[b].initializer.v)[j] = gnmap[ga]

\* C7: the decoder run a second time on the same source graph ends exactly as
\* the first run did: the same Module in every field, numeric Identifiers
\* included (or the same failure).
C7_SecondDecodeEqualsFirst ==
    (run = 2 /\ Done) => outcome = first

\* a second decode that returned a Module in which an unnamed global is referenced
C7_Witness ==
    /\ run = 2
    /\ Returned
    /\ first.kind = "Ok"
    /\ \E k \in 1..Len(global_vars) :
           /\ global_vars[k].initializer.some
           /\ \E j \in 1..Len(NameLeaves(global_vars[k].initializer.v)) :
                  NameLeaves(global_vars[k].initializer.v)[j].kind = "Number"

\* C8: throughout a decode every resolve of a type name hands out the same
\* slot, whichever entity decoder asks; a slot is created at most once per
\* name and populated at most once.
C8_OneSlotPerName ==
    /\ \A p, q \in memo.log : p[1] = q[1] => p[2] = q[2]
    /\ \A n \in TypeNames :
           /\ memo.created[n] <= 1
           /\ memo.populated[n] <= 1
           /\ memo.resolved[n] > 0 =>
                  /\ n \in DOMAIN tynamemap
                  /\ memo.log \cap ({ n } \X (1..memo.next)) = { << n, tynamemap[n].id >> }

\* a named type reached from a function, a global variable and an alias
C8_Witness ==
    /\ Returned
    /\ Len(functions) = 1 /\ Len(global_vars) = 1 /\ Len(global_aliases) = 1
    /\ functions[1].ty = global_vars[1].ty
    /\ global_vars[1].ty = global_aliases[1].ty
    /\ functions[1].ty.pointee.k = "NamedStructType"
    /\ memo.resolved["S"] >= 3
    /\ memo.created["S"] = 1

\* the decoded form of a foreign type, named types being references to the
\* slots of the table
RECURSIVE SlotView(_)
SlotView(t) ==
    IF t.k = "int" THEN IntegerType
    ELSE IF t.k = "ptr" THEN PointerType(SlotView(t.to), t.as)
    ELSE NamedStructType(t.name, tynamemap[t.name].id)

\* C9: resolving named types terminates also when a definition refers to
\* itself or to a type that refers back: construction is entered once per
\* name, every inner reference to a name is the slot registered for it, and
\* the slot of a defined type is populated exactly once (that of an opaque
\* type stays empty).
C9_SelfReferenceTerminates ==
    /\ ~memo.diverged
    /\ \A n \in DOMAIN tynamemap :
           /\ memo.created[n] = 1
           /\ memo.populated[n] = IF src.structs[n].opaque THEN 0 ELSE 1
           /\ tynamemap[n].val.some = ~src.structs[n].opaque
           /\ tynamemap[n].val.some =>
                  tynamemap[n].val.v =
                      StructType([f \in 1..Len(src.structs[n].fields) |->
                                     SlotView(src.structs[n].fields[f])])

\* S holds a pointer to T and T a pointer back to S, both decoded
C9_Witness ==
    /\ Returned
    /\ DOMAIN tynamemap = { "S", "T" }
    /\ src.structs["S"].fields = << Ptr(Named("S"), 0), Ptr(Named("T"), 0) >>
    /\ src.structs["T"].fields = << Ptr(Named("S"), 0) >>
    /\ memo.populated["S"] = 1 /\ memo.populated["T"] = 1
    /\ memo.resolved["S"] >= 3

LoadFailed == Done /\ path \in { "not_found", "unreadable" }
ParseRejected == Done /\ parse_called /\ decode_calls = 0

\* C11 as stated: load, deserialize and decode are strictly ordered; a failed
\* load or a rejected byte stream returns Err with a message and the decoder
\* is never started, which runs only after both earlier steps succeeded.
C11_FailureReturnsErrBeforeDecode ==
    /\ parse_called => path = "ok"
    /\ decode_calls > 0 => (parse_called /\ src \in Sources)
    /\ (LoadFailed \/ ParseRejected) =>
           /\ outcome.kind = "Err"
           /\ outcome.msg # ""
           /\ decode_calls = 0
           /\ src = NoModule

\* C11 amended: the same order; a rejected byte stream returns
\* Err("Failed to parse bitcode"); a failed load returns Err with the
\* loader's message, or panics in the conversion of that message when it is
\* not valid UTF-8; in each case the decoder is never started.
C11_FailureStopsBeforeDecode ==
    /\ parse_called => path = "ok"
    /\ decode_calls > 0 => (parse_called /\ src \in Sources)
    /\ LoadFailed =>
           /\ outcome \in { Err(ErrString(path)), Panic("Failed to convert CStr") }
           /\ ~parse_called
    /\ ParseRejected => outcome = Err("Failed to parse bitcode")
    /\ (LoadFailed \/ ParseRejected) => (decode_calls = 0 /\ src = NoModule)

\* the deserializer rejected the bytes of a file that was loaded
C11_Witness ==
    /\ ParseRejected
    /\ path = "ok"
    /\ outcome = Err("Failed to parse bitcode")

\* the numbers of the numeric names of a list of decoded entities, in order
RECURSIVE NumbersOf(_, _)
NumbersOf(es, i) ==
    IF i > Len(es) THEN <<>>
    ELSE (IF es[i].name.kind = "Number" THEN << es[i].name.n >> ELSE <<>>)
             \o NumbersOf(es, i + 1)

UnnamedCount(m, kinds) ==
    Cardinality({ i \in 1..Len(m.nodes) : m.nodes[i].kind \in kinds /\ m.nodes[i].name = "" })

====
